---- MODULE Spec2Model ----
(***************************************************************************)
(* Model of keyboard_arm_control.py: the dispatcher (main_loop calling     *)
(* process_command) and the daemon threads it starts for playback_path     *)
(* and return_to_neutral_slowly, all sharing the module globals            *)
(* current_angles, is_recording, recorded_path and stop_event.             *)
(*                                                                         *)
(* Granularity.  process_command is one step of the dispatcher.  A thread  *)
(* takes one step for its entry check and then one step per loop           *)
(* iteration, i.e. from one time.sleep to the next: a playback step        *)
(* applies one recorded dict, a homing tick moves every joint once.        *)
(* The steps of different threads and of the dispatcher interleave freely. *)
(* This is the specification Spec.                                         *)
(*                                                                         *)
(* SpecInterleaved is the same program with every call that writes angles  *)
(* taken apart: the store into current_angles and the write to the servo   *)
(* are steps of their own and interleave across the threads.               *)
(*                                                                         *)
(* History kept for the properties: lastCmd, last_report (the lines the    *)
(* thread that returned last printed on its way out) and, in each run's    *)
(* record, what was true when it was started and what it has applied.      *)
(***************************************************************************)
EXTENDS Integers, Sequences, FiniteSets, TLC

\* ---------------------------------------------------------------- bounds
\* Number of commands the dispatcher processes in one run that move a joint
\* or start a thread (the other commands are not counted).
MaxWork == 3
\* Number of playback/homing threads alive at one time.
MaxRuns == 2
\* The same budget in SpecInterleaved, where every write is several steps.
MaxWorkInterleaved == 2

\* --------------------------------------------------------- configuration
\* SERVO_PINS.keys()
Joints ==
    {"base_1", "base_2", "shoulder", "elbow", "arm_bend",
     "gripper_rotate", "gripper_grasp"}

NEUTRAL_ANGLES ==
    [n \in Joints |->
        CASE n = "base_1" -> 180
          [] n = "base_2" -> 0
          [] n = "shoulder" -> 180
          [] n = "elbow" -> 100
          [] n = "arm_bend" -> 75
          [] n = "gripper_rotate" -> 90
          [] n = "gripper_grasp" -> 80]

INCREMENT == 5

\* The limits move_servo clamps to.
MIN_ANGLE == 0
MAX_ANGLE == 180

\* ------------------------------------------------------------- tokens
MoveCmds ==
    {"left", "right", "down", "up", "w", "s", "t", "y", "a", "d", "1", "2"}

ControlCmds == {"r", "p", "o", "h", "help"}

\* A token that process_command maps to nothing.
UnknownCmds == {"x"}

Commands == MoveCmds \cup ControlCmds \cup UnknownCmds

\* ---------------------------------------------------------------- state
VARIABLES
    current_angles,   \* global current_angles: joint -> angle
    servos,           \* angle last written to each servo pin (servos[name].write)
    is_recording,     \* global is_recording
    recorded_path,    \* global recorded_path: sequence of copies of current_angles
    stop_event,       \* threading.Event stop_event
    runs,             \* the threads started by 'p' and 'h' that are alive
    work,             \* commands processed so far that moved or started a thread
    lastCmd,          \* the token process_command handled last ("" before any)
    last_report,      \* what the thread that returned last printed on its way out
    pending           \* per thread of control, the rest of the call it is inside

vars ==
    <<current_angles, servos, is_recording, recorded_path, stop_event, runs,
      work, lastCmd, last_report, pending>>

\* ------------------------------------------------------------ move_servo
Min2(a, b) == IF a < b THEN a ELSE b
Max2(a, b) == IF a > b THEN a ELSE b

\* angle = max(0, min(180, angle))
Clamp(angle) == Max2(MIN_ANGLE, Min2(MAX_ANGLE, angle))

\* move_servo without line 79: the angle is stored and written as passed.
move_servo_unclamped(st, name, angle) ==
    << [st[1] EXCEPT ![name] = angle],
       [st[2] EXCEPT ![name] = angle] >>

\* move_servo(name, angle) on the pair <<current_angles, servos>>: both get
\* the clamped angle (every name used is a key of servos).
move_servo(st, name, angle) ==
    << [st[1] EXCEPT ![name] = Clamp(angle)],
       [st[2] EXCEPT ![name] = Clamp(angle)] >>

\* ------------------------------------------------------- process_command
\* A 'left'/'right' that turns both base servos the same way.
MoveCalls_same_direction(command) ==
    CASE command = "left"  -> << <<"base_1", INCREMENT>>, <<"base_2", INCREMENT>> >>
      [] command = "right" -> << <<"base_1", -INCREMENT>>, <<"base_2", -INCREMENT>> >>
      [] command = "down"  -> << <<"shoulder", INCREMENT>> >>
      [] command = "up"    -> << <<"shoulder", -INCREMENT>> >>
      [] command = "w"     -> << <<"elbow", INCREMENT>> >>
      [] command = "s"     -> << <<"elbow", -INCREMENT>> >>
      [] command = "t"     -> << <<"arm_bend", INCREMENT>> >>
      [] command = "y"     -> << <<"arm_bend", -INCREMENT>> >>
      [] command = "a"     -> << <<"gripper_rotate", INCREMENT>> >>
      [] command = "d"     -> << <<"gripper_rotate", -INCREMENT>> >>
      [] command = "1"     -> << <<"gripper_grasp", INCREMENT>> >>
      [] command = "2"     -> << <<"gripper_grasp", -INCREMENT>> >>
      [] OTHER             -> << >>

\* The move_servo calls of a movement command, in call order, as
\* <<joint, delta>>: the angle passed is current_angles[joint] + delta, read
\* when the call is made.
MoveCalls(command) ==
    CASE command = "left"  -> << <<"base_1", INCREMENT>>, <<"base_2", -INCREMENT>> >>
      [] command = "right" -> << <<"base_1", -INCREMENT>>, <<"base_2", INCREMENT>> >>
      [] command = "down"  -> << <<"shoulder", INCREMENT>> >>
      [] command = "up"    -> << <<"shoulder", -INCREMENT>> >>
      [] command = "w"     -> << <<"elbow", INCREMENT>> >>
      [] command = "s"     -> << <<"elbow", -INCREMENT>> >>
      [] command = "t"     -> << <<"arm_bend", INCREMENT>> >>
      [] command = "y"     -> << <<"arm_bend", -INCREMENT>> >>
      [] command = "a"     -> << <<"gripper_rotate", INCREMENT>> >>
      [] command = "d"     -> << <<"gripper_rotate", -INCREMENT>> >>
      [] command = "1"     -> << <<"gripper_grasp", INCREMENT>> >>
      [] command = "2"     -> << <<"gripper_grasp", -INCREMENT>> >>
      [] OTHER             -> << >>

RECURSIVE ApplyCalls(_, _)
ApplyCalls(st, calls) ==
    IF calls = << >> THEN st
    ELSE LET c == Head(calls)
         IN  ApplyCalls(move_servo(st, c[1], st[1][c[1]] + c[2]), Tail(calls))

\* record_current_state with the test of line 88 inverted.
record_current_state_inverted(path, recording, angles) ==
    IF ~recording THEN Append(path, angles) ELSE path

\* record_current_state without the .copy() of line 89: the list holds the
\* live dict itself, so at the call every entry reads as the angles of now.
record_current_state_uncopied(path, recording, angles) ==
    IF recording
    THEN Append([k \in 1..Len(path) |-> angles], angles)
    ELSE path

\* record_current_state(): the path after the call.
record_current_state(path, recording, angles) ==
    IF recording THEN Append(path, angles) ELSE path

\* The threads alive at one time occupy slots 1..MaxRuns; NoRun marks a free
\* slot (no thread, or one whose target has returned).
RunIds == 1..MaxRuns

\* The threads of control: the main thread, which runs main_loop and every
\* process_command call, and the threads in the slots.
Dispatcher == 0
Actors == {Dispatcher} \cup RunIds

\* No thread of control is inside a call that writes angles.
Idle == [a \in Actors |-> << >>]

NoRun ==
    [kind |-> "none", pc |-> "none", idx |-> 0, temp_angles |-> NEUTRAL_ANGLES,
     rec_at_start |-> FALSE, path_at_start |-> << >>, applied |-> << >>,
     ticks |-> 0]

\* A thread object as threading.Thread(target=...) creates it.  kind is the
\* target; pc is "start" before the target's entry check and "loop" inside
\* its loop.  idx is the list iterator's position in playback_path,
\* temp_angles the local of return_to_neutral_slowly (unset, shown as the
\* neutral angles, until the entry check passed).
\* rec_at_start, path_at_start, applied and ticks are history: for a homing,
\* the recording flag when the command started the thread and the ticks made
\* so far; for a playback, the path when the command started the thread and
\* the dicts applied so far.
NewRun(kind) ==
    [kind |-> kind, pc |-> "start", idx |-> 0, temp_angles |-> NEUTRAL_ANGLES,
     rec_at_start |-> (kind = "homing" /\ is_recording),
     path_at_start |-> (IF kind = "playback" THEN recorded_path ELSE << >>),
     applied |-> << >>, ticks |-> 0]

FreeSlots == {i \in RunIds : runs[i].kind = "none"}

\* thread.start(): the new thread takes the lowest free slot.
StartThread(kind) ==
    /\ work < MaxWork
    /\ FreeSlots # {}
    /\ work' = work + 1
    /\ LET i == CHOOSE j \in FreeSlots : \A k \in FreeSlots : j <= k
       IN  runs' = [runs EXCEPT ![i] = NewRun(kind)]

\* Movement branches (lines 198-228) followed by record_current_state.
Move(command) ==
    /\ command \in MoveCmds
    /\ work < MaxWork
    /\ LET st == ApplyCalls(<<current_angles, servos>>, MoveCalls(command))
       IN  /\ current_angles' = st[1]
           /\ servos' = st[2]
           /\ recorded_path' = record_current_state(recorded_path, is_recording, st[1])
    /\ work' = work + 1
    /\ UNCHANGED <<is_recording, runs>>

\* An 'r' branch that clears the path whether or not recording is active.
RecordStarted_always_clears(recording, path) ==
    <<TRUE, << >> >>

\* The 'r' branch (lines 232-237) on <<is_recording, recorded_path>>.
RecordStarted(recording, path) ==
    IF ~recording THEN <<TRUE, << >> >> ELSE <<recording, path>>

\* 'r' (lines 231-237)
StartRecord(command) ==
    /\ command = "r"
    /\ is_recording' = RecordStarted(is_recording, recorded_path)[1]
    /\ recorded_path' = RecordStarted(is_recording, recorded_path)[2]
    /\ UNCHANGED <<current_angles, servos, runs, work>>

\* A 'p' branch without the test of line 240.
StartPlayback_unchecked(command) ==
    /\ command = "p"
    /\ StartThread("playback")
    /\ UNCHANGED <<current_angles, servos, is_recording, recorded_path>>

\* 'p' (lines 239-245)
StartPlayback(command) ==
    /\ command = "p"
    /\ IF is_recording
         THEN UNCHANGED <<runs, work>>
         ELSE StartThread("playback")
    /\ UNCHANGED <<current_angles, servos, is_recording, recorded_path>>

\* An 'o' branch that also empties the path.
StopRecord_clears(command) ==
    /\ command = "o"
    /\ is_recording' = FALSE
    /\ recorded_path' = << >>
    /\ UNCHANGED <<current_angles, servos, runs, work>>

\* 'o' (lines 247-252)
StopRecord(command) ==
    /\ command = "o"
    /\ is_recording' = (IF is_recording THEN FALSE ELSE is_recording)
    /\ UNCHANGED <<current_angles, servos, recorded_path, runs, work>>

\* 'h' (lines 254-257): the thread is started whatever the recording flag.
StartHoming(command) ==
    /\ command = "h"
    /\ StartThread("homing")
    /\ UNCHANGED <<current_angles, servos, is_recording, recorded_path>>

\* The final else without its return (line 264): an unknown token falls
\* through to lines 267-268 and is recorded like a move.
NoEffect_falls_through(command) ==
    /\ command \in {"help"} \cup UnknownCmds
    /\ recorded_path' =
           IF command \in UnknownCmds
           THEN record_current_state(recorded_path, is_recording, current_angles)
           ELSE recorded_path
    /\ UNCHANGED <<current_angles, servos, is_recording, runs, work>>

\* 'help' (lines 259-260) and the final else (lines 262-264).
NoEffect(command) ==
    /\ command \in {"help"} \cup UnknownCmds
    /\ UNCHANGED <<current_angles, servos, is_recording, recorded_path, runs, work>>

\* process_command(command), called by main_loop while stop_event is unset.
process_command(command) ==
    /\ ~stop_event
    /\ lastCmd' = command
    /\ UNCHANGED <<stop_event, last_report, pending>>
    /\ \/ Move(command)
       \/ StartRecord(command)
       \/ StartPlayback(command)
       \/ StopRecord(command)
       \/ StartHoming(command)
       \/ NoEffect(command)

\* Esc / Ctrl+C in main_loop, and the finally of __main__.
Shutdown ==
    /\ ~stop_event
    /\ stop_event' = TRUE
    /\ UNCHANGED <<current_angles, servos, is_recording, recorded_path, runs,
                   work, lastCmd, last_report, pending>>

\* ------------------------------------------------------ thread messages
\* The value of last_report: the target that returned and the lines it
\* printed between leaving its loop, or failing its entry check, and its
\* return.
Report(kind, prints) == [kind |-> kind, prints |-> prints]

\* Lines 135-137 and 144 of playback_path: what is printed when the loop is
\* left, by the break (interrupted) or by the end of the list.
playback_exit_prints(interrupted) ==
    (IF interrupted THEN {"Playback interrupted."} ELSE {})
        \cup {"--- Playback Finished ---"}

\* Lines 104-106 and 123-124 of return_to_neutral_slowly: what is printed
\* when the loop is left, by the break (interrupted) or by the while
\* condition, with stop_event as line 123 reads it.
homing_exit_prints(interrupted, stopped) ==
    (IF interrupted THEN {"Return to neutral interrupted."} ELSE {})
        \cup (IF ~stopped THEN {"Arm has returned to neutral position."} ELSE {})

\* --------------------------------------------------------- playback_path
\* Entry check (lines 129-133).
PlaybackStart(i) ==
    /\ runs[i].kind = "playback"
    /\ runs[i].pc = "start"
    /\ IF recorded_path = << >>
         THEN /\ runs' = [runs EXCEPT ![i] = NoRun]
              /\ last_report' = Report("playback", {"Nothing recorded to play back."})
         ELSE /\ runs' = [runs EXCEPT ![i].pc = "loop"]
              /\ UNCHANGED last_report
    /\ UNCHANGED <<current_angles, servos, is_recording, recorded_path,
                   stop_event, work, lastCmd, pending>>

\* playback_path's loop without lines 135-137: a snapshot is applied whether
\* or not stop_event is set.
PlaybackStep_unpolled(i) ==
    /\ runs[i].kind = "playback"
    /\ runs[i].pc = "loop"
    /\ IF runs[i].idx >= Len(recorded_path)
         THEN /\ runs' = [runs EXCEPT ![i] = NoRun]
              /\ last_report' = Report("playback", playback_exit_prints(FALSE))
              /\ UNCHANGED <<current_angles, servos>>
         ELSE LET angles_state == recorded_path[runs[i].idx + 1]
              IN  /\ servos' = [name \in Joints |-> angles_state[name]]
                  /\ current_angles' = [name \in Joints |-> angles_state[name]]
                  /\ runs' = [runs EXCEPT ![i].idx = @ + 1,
                                          ![i].applied = Append(@, angles_state)]
                  /\ UNCHANGED last_report
    /\ UNCHANGED <<is_recording, recorded_path, stop_event, work, lastCmd,
                   pending>>

\* One iteration of "for i, angles_state in enumerate(recorded_path)"
\* (lines 134-142), or the end of the loop and lines 144-145.  The iterator
\* reads the list as it is now: it ends once idx has reached the list's
\* present length.
PlaybackStep(i) ==
    /\ runs[i].kind = "playback"
    /\ runs[i].pc = "loop"
    /\ IF runs[i].idx >= Len(recorded_path)
         THEN /\ runs' = [runs EXCEPT ![i] = NoRun]
              /\ last_report' = Report("playback", playback_exit_prints(FALSE))
              /\ UNCHANGED <<current_angles, servos>>
         ELSE IF stop_event
         THEN /\ runs' = [runs EXCEPT ![i] = NoRun]
              /\ last_report' = Report("playback", playback_exit_prints(TRUE))
              /\ UNCHANGED <<current_angles, servos>>
         ELSE LET angles_state == recorded_path[runs[i].idx + 1]
              IN  /\ servos' = [name \in Joints |-> angles_state[name]]
                  /\ current_angles' = [name \in Joints |-> angles_state[name]]
                  /\ runs' = [runs EXCEPT ![i].idx = @ + 1,
                                          ![i].applied = Append(@, angles_state)]
                  /\ UNCHANGED last_report
    /\ UNCHANGED <<is_recording, recorded_path, stop_event, work, lastCmd,
                   pending>>

\* ---------------------------------------------- return_to_neutral_slowly
\* Entry check and the copy of current_angles (lines 95-100).
HomingStart(i) ==
    /\ runs[i].kind = "homing"
    /\ runs[i].pc = "start"
    /\ IF is_recording
         THEN /\ runs' = [runs EXCEPT ![i] = NoRun]
              /\ last_report' = Report("homing", {"Cannot return to home while recording."})
         ELSE /\ runs' = [runs EXCEPT ![i].pc = "loop",
                                      ![i].temp_angles = current_angles]
              /\ UNCHANGED last_report
    /\ UNCHANGED <<current_angles, servos, is_recording, recorded_path,
                   stop_event, work, lastCmd, pending>>

\* any(int(temp_angles[name]) != NEUTRAL_ANGLES[name] for name in SERVO_PINS)
NotAtNeutral(temp_angles) ==
    \E name \in Joints : temp_angles[name] # NEUTRAL_ANGLES[name]

\* Lines 109-117: the angle one step closer to neutral.
StepToward(current, neutral) ==
    IF current < neutral THEN current + 1 ELSE current - 1

\* The for loop of one tick (lines 108-119) on <<current_angles, servos>>:
\* every joint whose temp angle differs from neutral is moved, through
\* move_servo, to its temp angle stepped once.  The joints are distinct, so
\* the order of the loop does not matter.
TickAngles(st, temp_angles) ==
    LET moved(name) == temp_angles[name] # NEUTRAL_ANGLES[name]
        new_angle(name) == StepToward(temp_angles[name], NEUTRAL_ANGLES[name])
    IN  << [name \in Joints |->
               IF moved(name) THEN move_servo(st, name, new_angle(name))[1][name]
               ELSE st[1][name]],
           [name \in Joints |->
               IF moved(name) THEN move_servo(st, name, new_angle(name))[2][name]
               ELSE st[2][name]] >>

\* temp_angles after one tick (line 119).
TickTemp(temp_angles) ==
    [name \in Joints |->
        IF temp_angles[name] # NEUTRAL_ANGLES[name]
        THEN StepToward(temp_angles[name], NEUTRAL_ANGLES[name])
        ELSE temp_angles[name]]

\* return_to_neutral_slowly's loop without lines 104-106: a tick is applied
\* whether or not stop_event is set.
HomingTick_unpolled(i) ==
    /\ runs[i].kind = "homing"
    /\ runs[i].pc = "loop"
    /\ IF ~NotAtNeutral(runs[i].temp_angles)
         THEN /\ runs' = [runs EXCEPT ![i] = NoRun]
              /\ last_report' = Report("homing", homing_exit_prints(FALSE, stop_event))
              /\ UNCHANGED <<current_angles, servos>>
         ELSE LET st == TickAngles(<<current_angles, servos>>, runs[i].temp_angles)
              IN  /\ current_angles' = st[1]
                  /\ servos' = st[2]
                  /\ runs' = [runs EXCEPT ![i].temp_angles = TickTemp(@),
                                          ![i].ticks = @ + 1]
                  /\ UNCHANGED last_report
    /\ UNCHANGED <<is_recording, recorded_path, stop_event, work, lastCmd,
                   pending>>

\* One evaluation of the while condition with the iteration it admits
\* (lines 103-121), or the end of the loop and lines 123-125.
HomingTick(i) ==
    /\ runs[i].kind = "homing"
    /\ runs[i].pc = "loop"
    /\ IF ~NotAtNeutral(runs[i].temp_angles)
         THEN /\ runs' = [runs EXCEPT ![i] = NoRun]
              /\ last_report' = Report("homing", homing_exit_prints(FALSE, stop_event))
              /\ UNCHANGED <<current_angles, servos>>
         ELSE IF stop_event
         THEN /\ runs' = [runs EXCEPT ![i] = NoRun]
              /\ last_report' = Report("homing", homing_exit_prints(TRUE, stop_event))
              /\ UNCHANGED <<current_angles, servos>>
         ELSE LET st == TickAngles(<<current_angles, servos>>, runs[i].temp_angles)
              IN  /\ current_angles' = st[1]
                  /\ servos' = st[2]
                  /\ runs' = [runs EXCEPT ![i].temp_angles = TickTemp(@),
                                          ![i].ticks = @ + 1]
                  /\ UNCHANGED last_report
    /\ UNCHANGED <<is_recording, recorded_path, stop_event, work, lastCmd,
                   pending>>

Init ==
    /\ current_angles = NEUTRAL_ANGLES
    /\ servos = NEUTRAL_ANGLES
    /\ is_recording = FALSE
    /\ recorded_path = << >>
    /\ stop_event = FALSE
    /\ runs = [i \in RunIds |-> NoRun]
    /\ work = 0
    /\ lastCmd = ""
    /\ last_report = Report("none", {})
    /\ pending = Idle

Next ==
    \/ \E command \in Commands : process_command(command)
    \/ Shutdown
    \/ \E i \in RunIds : PlaybackStart(i)
    \/ \E i \in RunIds : PlaybackStep(i)
    \/ \E i \in RunIds : HomingStart(i)
    \/ \E i \in RunIds : HomingTick(i)

Spec == Init /\ [][Next]_vars

\* ==================================================== the writes taken apart
\* A second specification of the same program in which a call that writes
\* angles is not one step: the store into current_angles and the write to
\* the servo are steps of their own, and the steps of the main thread and of
\* the playback and homing threads interleave freely, as the interpreter
\* may switch threads between any two statements and the code holds no
\* lock.  pending[a] is what thread a has left to do of the call it is in.

\* The key order of SERVO_PINS, NEUTRAL_ANGLES and current_angles, which is
\* the order of the for loops over them.
JointOrder ==
    <<"base_1", "base_2", "shoulder", "elbow", "arm_bend", "gripper_rotate",
      "gripper_grasp">>

\* move_servo(name, current_angles[name] + delta), yet to be entered.
CallOp(name, delta) == [op |-> "call", name |-> name, arg |-> delta]
\* move_servo(name, angle), yet to be entered.
SetOp(name, angle) == [op |-> "set", name |-> name, arg |-> angle]
\* current_angles[name] = angle
StoreOp(name, angle) == [op |-> "store", name |-> name, arg |-> angle]
\* servos[name].write(angle)
WriteOp(name, angle) == [op |-> "write", name |-> name, arg |-> angle]
\* record_current_state()
RecordOp == [op |-> "record", name |-> "", arg |-> 0]

\* Thread a runs the next statement of the call it is inside.  move_servo
\* clamps and stores (lines 79-81) in one step and writes (line 82) in the
\* next; playback's write (line 140) and store (line 141) are a step each.
Statement(a) ==
    /\ pending[a] # << >>
    /\ LET o == Head(pending[a])
           rest == Tail(pending[a])
           angle == IF o.op = "call" THEN current_angles[o.name] + o.arg
                    ELSE o.arg
           st == move_servo(<<current_angles, servos>>, o.name, angle)
       IN  CASE o.op \in {"call", "set"} ->
                  /\ current_angles' = st[1]
                  /\ pending' = [pending EXCEPT ![a] =
                                    <<WriteOp(o.name, st[2][o.name])>> \o rest]
                  /\ UNCHANGED <<servos, recorded_path>>
             [] o.op = "store" ->
                  /\ current_angles' = [current_angles EXCEPT ![o.name] = o.arg]
                  /\ pending' = [pending EXCEPT ![a] = rest]
                  /\ UNCHANGED <<servos, recorded_path>>
             [] o.op = "write" ->
                  /\ servos' = [servos EXCEPT ![o.name] = o.arg]
                  /\ pending' = [pending EXCEPT ![a] = rest]
                  /\ UNCHANGED <<current_angles, recorded_path>>
             [] o.op = "record" ->
                  /\ recorded_path' =
                         record_current_state(recorded_path, is_recording,
                                              current_angles)
                  /\ pending' = [pending EXCEPT ![a] = rest]
                  /\ UNCHANGED <<current_angles, servos>>
    /\ UNCHANGED <<is_recording, stop_event, runs, work, lastCmd, last_report>>

\* A move token enters process_command: its move_servo calls (lines
\* 198-228) and the record_current_state call (lines 267-268) lie ahead.
MoveEntered(command) ==
    /\ command \in MoveCmds
    /\ work < MaxWorkInterleaved
    /\ work' = work + 1
    /\ LET calls == MoveCalls(command)
       IN  pending' = [pending EXCEPT ![Dispatcher] =
               [k \in 1..Len(calls) |-> CallOp(calls[k][1], calls[k][2])]
                   \o <<RecordOp>>]
    /\ UNCHANGED <<current_angles, servos, is_recording, recorded_path, runs>>

\* process_command(command), called by main_loop once the call before it
\* has returned.  The branches that write no angle are one step, as in Spec.
process_command_entered(command) ==
    /\ ~stop_event
    /\ pending[Dispatcher] = << >>
    /\ lastCmd' = command
    /\ UNCHANGED <<stop_event, last_report>>
    /\ \/ MoveEntered(command)
       \/ /\ \/ StartRecord(command)
             \/ StartPlayback(command)
             \/ StopRecord(command)
             \/ StartHoming(command)
             \/ NoEffect(command)
          /\ work' <= MaxWorkInterleaved
          /\ UNCHANGED pending

\* The top of one iteration of playback_path's loop (lines 134-138): the
\* end of the list, the break, or the writes and stores of one snapshot
\* (lines 139-141) lying ahead.
PlaybackIteration(i) ==
    /\ runs[i].kind = "playback"
    /\ runs[i].pc = "loop"
    /\ pending[i] = << >>
    /\ IF runs[i].idx >= Len(recorded_path)
         THEN /\ runs' = [runs EXCEPT ![i] = NoRun]
              /\ last_report' = Report("playback", playback_exit_prints(FALSE))
              /\ UNCHANGED pending
         ELSE IF stop_event
         THEN /\ runs' = [runs EXCEPT ![i] = NoRun]
              /\ last_report' = Report("playback", playback_exit_prints(TRUE))
              /\ UNCHANGED pending
         ELSE LET angles_state == recorded_path[runs[i].idx + 1]
              IN  /\ pending' = [pending EXCEPT ![i] =
                         [k \in 1..(2 * Len(JointOrder)) |->
                             LET name == JointOrder[(k + 1) \div 2]
                             IN  IF k % 2 = 1
                                 THEN WriteOp(name, angles_state[name])
                                 ELSE StoreOp(name, angles_state[name])]]
                  /\ runs' = [runs EXCEPT ![i].idx = @ + 1,
                                          ![i].applied = Append(@, angles_state)]
                  /\ UNCHANGED last_report
    /\ UNCHANGED <<current_angles, servos, is_recording, recorded_path,
                   stop_event, work, lastCmd>>

\* The top of one iteration of return_to_neutral_slowly's loop (lines
\* 103-107): the end of the loop, the break, or the move_servo calls of one
\* tick (lines 108-119) lying ahead.  temp_angles is local to the thread.
HomingIteration(i) ==
    /\ runs[i].kind = "homing"
    /\ runs[i].pc = "loop"
    /\ pending[i] = << >>
    /\ IF ~NotAtNeutral(runs[i].temp_angles)
         THEN /\ runs' = [runs EXCEPT ![i] = NoRun]
              /\ last_report' = Report("homing", homing_exit_prints(FALSE, stop_event))
              /\ UNCHANGED pending
         ELSE IF stop_event
         THEN /\ runs' = [runs EXCEPT ![i] = NoRun]
              /\ last_report' = Report("homing", homing_exit_prints(TRUE, stop_event))
              /\ UNCHANGED pending
         ELSE LET temp_angles == runs[i].temp_angles
                  away(name) == temp_angles[name] # NEUTRAL_ANGLES[name]
                  names == SelectSeq(JointOrder, away)
              IN  /\ pending' = [pending EXCEPT ![i] =
                         [k \in 1..Len(names) |->
                             SetOp(names[k],
                                   StepToward(temp_angles[names[k]],
                                              NEUTRAL_ANGLES[names[k]]))]]
                  /\ runs' = [runs EXCEPT ![i].temp_angles = TickTemp(@),
                                          ![i].ticks = @ + 1]
                  /\ UNCHANGED last_report
    /\ UNCHANGED <<current_angles, servos, is_recording, recorded_path,
                   stop_event, work, lastCmd>>

\* Esc is read by main_loop between two process_command calls.
ShutdownBetweenCommands == pending[Dispatcher] = << >> /\ Shutdown

NextInterleaved ==
    \/ \E command \in Commands : process_command_entered(command)
    \/ ShutdownBetweenCommands
    \/ \E a \in Actors : Statement(a)
    \/ \E i \in RunIds : PlaybackStart(i)
    \/ \E i \in RunIds : PlaybackIteration(i)
    \/ \E i \in RunIds : HomingStart(i)
    \/ \E i \in RunIds : HomingIteration(i)

SpecInterleaved == Init /\ [][NextInterleaved]_vars

\* ================================================================ claims
\* A run is in flight once its target passed the entry check and until the
\* target returns.
InFlight(i) == runs[i].pc = "loop"

\* The step is process_command(command) for this token.
Processed(command) == process_command(command)

\* ---- C1
\* C1: in every reachable state every joint's stored angle lies within
\* [0, 180], whatever manual moves, playback steps and homing ticks ran.
C1_AnglesInRange ==
    \A name \in Joints : current_angles[name] \in 0..180

\* A 'left' has been processed with base_1 at the upper and base_2 at the
\* lower limit, and both were clamped there.
C1_Witness ==
    /\ lastCmd = "left"
    /\ work = 1
    /\ current_angles["base_1"] = 180
    /\ current_angles["base_2"] = 0

\* ---- C2
\* C2: at most one playback/homing run is in flight at any time.
C2_AtMostOneRun ==
    Cardinality({i \in RunIds : InFlight(i)}) <= 1

\* ---- C3
\* C3: the recording flag is never active while a playback or homing run is
\* in flight ('r' during a run is rejected).
C3_NoRecordingDuringRun ==
    is_recording => \A i \in RunIds : ~InFlight(i)

\* ---- C4
\* C4: a 'p' processed while recording is active starts no playback thread
\* and leaves the path, the recording flag and every joint angle unchanged.
C4_PlaybackRejectedWhileRecording ==
    [][(is_recording /\ Processed("p")) =>
          /\ runs' = runs
          /\ recorded_path' = recorded_path
          /\ is_recording' = is_recording
          /\ current_angles' = current_angles]_vars

\* The last command was a 'p', processed while a recording with at least one
\* point was active.
C4_Witness ==
    /\ lastCmd = "p"
    /\ is_recording
    /\ recorded_path # << >>
    /\ \A i \in RunIds : runs[i].kind # "playback"

\* ---- C5
\* C5: a homing thread started by an 'h' that was processed while recording
\* was active never makes a tick.
C5_NoTickWhenStartedWhileRecording ==
    \A i \in RunIds :
        (runs[i].kind = "homing" /\ runs[i].rec_at_start) => runs[i].ticks = 0

\* ---- C6
\* C6: while recording is active, every relative-move command lengthens the
\* path by exactly one dict, the copy of the angles after all of the
\* command's moves, and every control command leaves the path as it is.
C6_OneAppendPerMove ==
    [][is_recording =>
          /\ \A c \in {"left", "right", "down", "up", "w", "s", "t", "y",
                       "a", "d", "1", "2"} :
                 Processed(c) =>
                     /\ Len(recorded_path') = Len(recorded_path) + 1
                     /\ SubSeq(recorded_path', 1, Len(recorded_path)) = recorded_path
                     /\ recorded_path'[Len(recorded_path')] = current_angles'
          /\ \A c \in {"r", "o", "p", "h", "help"} :
                 Processed(c) => recorded_path' = recorded_path]_vars

\* A 'left' processed while recording appended the second dict of the path,
\* with both base joints away from where the first dict has them.
C6_Witness ==
    /\ is_recording
    /\ lastCmd = "left"
    /\ Len(recorded_path) = 2
    /\ recorded_path[2] = current_angles
    /\ recorded_path[2]["base_1"] # recorded_path[1]["base_1"]
    /\ recorded_path[2]["base_2"] # recorded_path[1]["base_2"]

\* ---- C7
\* C7: the path changes only by the clear of an 'r' processed while not
\* recording and by the append of a relative move processed while
\* recording; no other step, and no step at all while the flag is inactive
\* except that 'r', changes it.
C7_PathWrittenOnlyWhileActive ==
    [][recorded_path' # recorded_path =>
          \/ /\ ~is_recording
             /\ Processed("r")
             /\ is_recording'
             /\ recorded_path' = << >>
          \/ /\ is_recording
             /\ is_recording'
             /\ \E c \in MoveCmds : Processed(c)
             /\ recorded_path' = Append(recorded_path, current_angles')]_vars

\* Recording is inactive, a path is kept, and the angles have since been
\* changed (by a manual move, a playback step or a homing tick) while a
\* homing thread has ticked.
C7_Witness ==
    /\ ~is_recording
    /\ recorded_path # << >>
    /\ current_angles # recorded_path[Len(recorded_path)]
    /\ \E i \in RunIds : runs[i].ticks >= 1

\* ---- C8
\* C8: for every reachable recording flag and path, handling 'r' twice gives
\* the same flag and path as handling it once, and an 'r' handled while
\* recording keeps the path in progress.
C8_StartIdempotent ==
    LET once == RecordStarted(is_recording, recorded_path)
        twice == RecordStarted(once[1], once[2])
    IN  /\ twice = once
        /\ once[1] = TRUE
        /\ is_recording => once[2] = recorded_path

\* An 'r' was processed while a recording with two points was in progress.
C8_Witness ==
    /\ lastCmd = "r"
    /\ is_recording
    /\ Len(recorded_path) = 2

\* ---- C9
\* The clamp into [0, 180] as the claim states it.
C9_clamp(x) == IF x < 0 THEN 0 ELSE IF x > 180 THEN 180 ELSE x

\* C9: 'left' takes the base joints from (a, b) to (clamp(a+5), clamp(b-5))
\* and 'right' to (clamp(a-5), clamp(b+5)), clamp into [0, 180], and changes
\* no other joint.
C9_DifferentialBase ==
    [][/\ Processed("left") =>
             current_angles' =
                 [current_angles EXCEPT
                     !["base_1"] = C9_clamp(current_angles["base_1"] + 5),
                     !["base_2"] = C9_clamp(current_angles["base_2"] - 5)]
       /\ Processed("right") =>
             current_angles' =
                 [current_angles EXCEPT
                     !["base_1"] = C9_clamp(current_angles["base_1"] - 5),
                     !["base_2"] = C9_clamp(current_angles["base_2"] + 5)]]_vars

\* A 'right' has just moved the base joints off their limits to (175, 5).
C9_Witness ==
    /\ lastCmd = "right"
    /\ current_angles["base_1"] = 175
    /\ current_angles["base_2"] = 5

\* ---- C10
\* C10: a playback started by a 'p' after a recording of N >= 1 moves was
\* stopped, and that ends without stop_event set, has applied exactly the N
\* recorded dicts in recording order, and the angles then equal the last one.
C10_PlaybackFidelity ==
    [][\A i \in RunIds :
          (/\ runs[i].kind = "playback"
           /\ runs[i].pc = "loop"
           /\ runs[i].path_at_start # << >>
           /\ runs'[i].kind = "none"
           /\ ~stop_event)
          => /\ runs[i].applied = runs[i].path_at_start
             /\ current_angles =
                    runs[i].path_at_start[Len(runs[i].path_at_start)]]_vars

Abs(x) == IF x < 0 THEN -x ELSE x

RECURSIVE SumOfDistances(_, _)
SumOfDistances(angles, names) ==
    IF names = {} THEN 0
    ELSE LET name == CHOOSE n \in names : TRUE
         IN  Abs(angles[name] - NEUTRAL_ANGLES[name])
                 + SumOfDistances(angles, names \ {name})

\* The sum over the joints of |angle - neutral angle|.
Distance(angles) == SumOfDistances(angles, Joints)

\* The step is a tick of homing run i: an iteration of its while loop that
\* got past the stop_event check.
Ticked(i) == HomingTick(i) /\ runs'[i].ticks = runs[i].ticks + 1

\* C12: every tick of a homing run strictly decreases the distance of
\* current_angles from neutral (so none increases it or leaves it as it
\* was, and the ticks end with the distance at zero).
C12_TickDecreasesDistance ==
    [][\A i \in RunIds :
          Ticked(i) => Distance(current_angles') < Distance(current_angles)
      ]_vars

\* ------------------------------------------------------------------ C13
\* C13: a homing run that leaves its loop without stop_event set leaves
\* every joint of current_angles at its neutral angle, whatever commands
\* were processed while it ran.
C13_HomingEndsAtNeutral ==
    [][\A i \in RunIds :
          (HomingTick(i) /\ runs'[i].kind = "none" /\ ~stop_event) =>
              current_angles = NEUTRAL_ANGLES
      ]_vars

\* ------------------------------------------------------------------ C14
\* The step is playback run i applying a snapshot.
Applied(i) ==
    PlaybackStep(i) /\ Len(runs'[i].applied) = Len(runs[i].applied) + 1

\* C14: stop_event is unset at startup, is set only by the shutdown request,
\* is never reset once set, and is polled before every playback step and
\* every homing tick: while it is set no run applies a snapshot or a tick.
C14_CancelTokenMonotone ==
    /\ ~stop_event
    /\ [][/\ stop_event => stop_event'
          /\ (stop_event' /\ ~stop_event) => Shutdown
          /\ stop_event => \A i \in RunIds : ~Applied(i) /\ ~Ticked(i)
         ]_vars

\* The shutdown request came while a homing run was between two ticks: it
\* has ticked, its copy is not at neutral yet, and its next poll sees the
\* event set.
C14_Witness ==
    /\ stop_event
    /\ \E i \in RunIds :
          /\ runs[i].kind = "homing"
          /\ runs[i].pc = "loop"
          /\ runs[i].ticks >= 1
          /\ NotAtNeutral(runs[i].temp_angles)

\* ------------------------------------------------------------------ C15
\* C15: processing an unknown token changes no joint angle, no servo, not
\* the recording flag and not the recorded path (nothing is appended even
\* while recording), and starts no thread.
C15_UnknownTokenIsNoOp ==
    [][\A command \in UnknownCmds :
          Processed(command) =>
              UNCHANGED <<current_angles, servos, is_recording, recorded_path,
                          runs, work, stop_event, last_report>>
      ]_vars

\* An unknown token was processed while recording was active and a snapshot
\* had been recorded.
C15_Witness ==
    /\ lastCmd \in UnknownCmds
    /\ is_recording
    /\ recorded_path # << >>

\* ------------------------------------------------------------------ C16
\* C16: one homing tick moves every joint of current_angles that is not at
\* its neutral angle by exactly 1 towards it and leaves every joint that is
\* at neutral as it is; the tick is one step, applied to all joints before
\* the next one begins.
C16_TickMovesOneDegree ==
    [][\A i \in RunIds :
          Ticked(i) =>
              \A name \in Joints :
                  current_angles'[name] =
                      IF current_angles[name] = NEUTRAL_ANGLES[name]
                      THEN current_angles[name]
                      ELSE StepToward(current_angles[name], NEUTRAL_ANGLES[name])
      ]_vars

\* ------------------------------------------------------------------ C18
\* C18: while a playback run is iterating recorded_path, no step clears the
\* list or appends to it, so the run applies the snapshots that were in the
\* list when it started.
C18_PathFrozenDuringPlayback ==
    [][\A i \in RunIds :
          (runs[i].kind = "playback" /\ InFlight(i) /\ ~PlaybackStep(i)) =>
              recorded_path' = recorded_path
      ]_vars

\* ------------------------------------------------------------------ C19
\* The lines by which a run reports that it was interrupted, and those by
\* which it reports that it finished.
InterruptedLines == {"Playback interrupted.", "Return to neutral interrupted."}
FinishedLines ==
    {"--- Playback Finished ---", "Arm has returned to neutral position."}

\* C19: a playback or homing run that reports interrupted does not also
\* report finished: the run that returned last printed lines of one of the
\* two outcomes only.
C19_InterruptedNeverFinished ==
    ~(/\ last_report.prints \cap InterruptedLines # {}
      /\ last_report.prints \cap FinishedLines # {})

\* ------------------------------------------------------------------ C20
\* C20: a snapshot is the angles of the moment it is appended and never
\* changes afterwards: every step keeps each entry of recorded_path at its
\* index with its value, whatever the step does to current_angles, and a
\* step that appends appends the angles it leaves; the only exception is
\* the 'r' that starts a recording and clears the list.
C20_SnapshotsImmutable ==
    [][\/ Processed("r") /\ ~is_recording
       \/ /\ Len(recorded_path') >= Len(recorded_path)
          /\ \A k \in 1..Len(recorded_path) :
                 recorded_path'[k] = recorded_path[k]
          /\ \A k \in (Len(recorded_path) + 1)..Len(recorded_path') :
                 recorded_path'[k] = current_angles'
      ]_vars

\* Two different snapshots were recorded and a homing run has since brought
\* the arm back to neutral: the list still holds both, in order, and
\* neither equals the angles of now.
C20_Witness ==
    /\ Len(recorded_path) = 2
    /\ recorded_path[1] # recorded_path[2]
    /\ \A k \in 1..2 : recorded_path[k] # current_angles
    /\ current_angles = NEUTRAL_ANGLES
    /\ last_report = Report("homing", homing_exit_prints(FALSE, FALSE))

\* ------------------------------------------------------------------ C17
\* C17: whenever no thread is inside a call that writes angles, every
\* joint's angle in current_angles is the angle written last to its servo,
\* under every interleaving of the statements of manual moves, playback
\* steps and homing ticks.
C17_StoredEqualsWritten ==
    pending = Idle => current_angles = servos

====
